---- MODULE Spec2Model ----
(***************************************************************************)
(* Model of MailPal's cellular bring-up: the registration monitor          *)
(* (registration.rs, modem.rs), the PDP activator and PDP monitor (pdp.rs) *)
(* and the application task (main.rs), as cooperative tasks that           *)
(* interleave at their await points (timers, Signal waits, AT exchanges).  *)
(*                                                                         *)
(* Text is a sequence of one-character strings.  A response is the slice   *)
(* resp_buf[..len]; the element BadByte stands for a byte that is not      *)
(* valid UTF-8.  Timers carry no duration: a timer is a suspension point   *)
(* at which any other task may run.                                        *)
(***************************************************************************)
EXTENDS Integers, Sequences, FiniteSets, TLC

\* ------------------------------------------------------------------ text

BadByte == "xFF"

Whitespace == {" ", "\t", "\n", "\r"}

Digits == {"0", "1", "2", "3", "4", "5", "6", "7", "8", "9"}

\* core::str::from_utf8(..).is_ok()
IsUtf8(s) == \A i \in 1..Len(s) : s[i] /= BadByte

Drop(s, n) == SubSeq(s, n + 1, Len(s))

StartsWithAt(s, p, i) ==
    /\ i + Len(p) - 1 <= Len(s)
    /\ \A j \in 1..Len(p) : s[i + j - 1] = p[j]

\* str::find: 1-based position of the first occurrence of p in s, 0 if none
Find(s, p) ==
    LET idx == {i \in 1..Len(s) : StartsWithAt(s, p, i)}
    IN  IF idx = {} THEN 0 ELSE CHOOSE i \in idx : \A j \in idx : i <= j

\* str::contains
Contains(s, p) == Find(s, p) /= 0

RECURSIVE TrimStart(_)
TrimStart(s) ==
    IF s /= <<>> /\ s[1] \in Whitespace THEN TrimStart(Tail(s)) ELSE s

RECURSIVE TrimEnd(_)
TrimEnd(s) ==
    IF s /= <<>> /\ s[Len(s)] \in Whitespace
    THEN TrimEnd(SubSeq(s, 1, Len(s) - 1))
    ELSE s

Trim(s) == TrimEnd(TrimStart(s))

\* s.split(sep).next(): the text before the first sep (all of s if none)
SplitFirst(s, sep) ==
    IF Find(s, <<sep>>) = 0 THEN s ELSE SubSeq(s, 1, Find(s, <<sep>>) - 1)

\* what s.split(sep) still holds after its first next()
SplitRest(s, sep) == Drop(s, Find(s, <<sep>>))

\* s.split(sep) yields a second item
SplitHasMore(s, sep) == Find(s, <<sep>>) /= 0

\* s.split_whitespace().next() is Some
HasToken(s) == TrimStart(s) /= <<>>

\* s.split_whitespace().next().unwrap(): the first run of non-whitespace
FirstToken(s) ==
    LET t  == TrimStart(s)
        ws == {i \in 1..Len(t) : t[i] \in Whitespace}
    IN  IF ws = {} THEN t
        ELSE SubSeq(t, 1, (CHOOSE i \in ws : \A j \in ws : i <= j) - 1)

DigitVal(c) ==
    CASE c = "0" -> 0 [] c = "1" -> 1 [] c = "2" -> 2 [] c = "3" -> 3
      [] c = "4" -> 4 [] c = "5" -> 5 [] c = "6" -> 6 [] c = "7" -> 7
      [] c = "8" -> 8 [] c = "9" -> 9

RECURSIVE NumVal(_)
NumVal(s) ==
    IF s = <<>> THEN 0
    ELSE 10 * NumVal(SubSeq(s, 1, Len(s) - 1)) + DigitVal(s[Len(s)])

ParseFail == -1

\* a parse that wraps values above 255 instead of failing
ParseU8_Wrapping(s) ==
    LET d == IF s /= <<>> /\ s[1] = "+" THEN Tail(s) ELSE s
    IN  IF d = <<>> \/ (\E i \in 1..Len(d) : d[i] \notin Digits) THEN ParseFail
        ELSE NumVal(d) % 256

\* str::parse::<u8>(): an optional '+', then one or more decimal digits whose
\* value fits 8 bits; ParseFail for Err
ParseU8(s) ==
    LET d == IF s /= <<>> /\ s[1] = "+" THEN Tail(s) ELSE s
    IN  IF d = <<>> \/ (\E i \in 1..Len(d) : d[i] \notin Digits) THEN ParseFail
        ELSE IF NumVal(d) > 255 THEN ParseFail
        ELSE NumVal(d)

\* ------------------------------------------------------- registration.rs

RegistrationStatus ==
    {"NotRegistered", "RegisteredHome", "Searching", "Denied", "Unknown",
     "RegisteredRoaming"}

\* Option::None of a RegistrationStatus
NoStatus == "None"

\* a table without the roaming code
from_u8_NoRoaming(val) ==
    CASE val = 0 -> "NotRegistered"
      [] val = 1 -> "RegisteredHome"
      [] val = 2 -> "Searching"
      [] val = 3 -> "Denied"
      [] OTHER   -> "Unknown"

from_u8(val) ==
    CASE val = 0 -> "NotRegistered"
      [] val = 1 -> "RegisteredHome"
      [] val = 2 -> "Searching"
      [] val = 3 -> "Denied"
      [] val = 5 -> "RegisteredRoaming"
      [] OTHER   -> "Unknown"

is_registered(status) == status \in {"RegisteredHome", "RegisteredRoaming"}

CeregMarker == <<"+", "C", "E", "R", "E", "G", ":">>

\* a parser that takes the status from the first field whatever follows
parse_cereg_response_FirstField(response) ==
    IF ~IsUtf8(response) THEN NoStatus
    ELSE IF Find(response, CeregMarker) = 0 THEN NoStatus
    ELSE
      LET after_cereg == Drop(response, Find(response, CeregMarker) - 1 + 7)
          trimmed     == TrimStart(after_cereg)
          first       == Trim(SplitFirst(trimmed, ","))
          stat_str    == IF HasToken(first) THEN FirstToken(first) ELSE first
          stat        == ParseU8(stat_str)
      IN  IF stat = ParseFail THEN NoStatus ELSE from_u8(stat)

parse_cereg_response(response) ==
    IF ~IsUtf8(response) THEN NoStatus
    ELSE IF Find(response, CeregMarker) = 0 THEN NoStatus
    ELSE
      LET after_cereg == Drop(response, Find(response, CeregMarker) - 1 + 7)
          trimmed     == TrimStart(after_cereg)
          first       == Trim(SplitFirst(trimmed, ","))
          second      == SplitFirst(SplitRest(trimmed, ","), ",")
          stat_str    == IF SplitHasMore(trimmed, ",")
                         THEN (IF HasToken(second) THEN FirstToken(second)
                               ELSE Trim(second))
                         ELSE (IF HasToken(first) THEN FirstToken(first)
                               ELSE first)
          stat        == ParseU8(stat_str)
      IN  IF stat = ParseFail THEN NoStatus ELSE from_u8(stat)

\* ---------------------------------------------------------------- pdp.rs

\* Option::None of an Ipv4Address; an address is <<a, b, c, d>>
NoIp == <<>>

CgpaddrMarker == <<"+", "C", "G", "P", "A", "D", "D", "R", ":">>

Quote == "\""

parse_ipv4(s) ==
    LET p1 == SplitFirst(s, ".")
        r1 == SplitRest(s, ".")
        p2 == SplitFirst(r1, ".")
        r2 == SplitRest(r1, ".")
        p3 == SplitFirst(r2, ".")
        r3 == SplitRest(r2, ".")
        p4 == SplitFirst(r3, ".")
    IN  IF ParseU8(p1) = ParseFail THEN NoIp
        ELSE IF ~SplitHasMore(s, ".") \/ ParseU8(p2) = ParseFail THEN NoIp
        ELSE IF ~SplitHasMore(r1, ".") \/ ParseU8(p3) = ParseFail THEN NoIp
        ELSE IF ~SplitHasMore(r2, ".") \/ ParseU8(p4) = ParseFail THEN NoIp
        ELSE IF SplitHasMore(r3, ".") THEN NoIp
        ELSE <<ParseU8(p1), ParseU8(p2), ParseU8(p3), ParseU8(p4)>>

parse_cgpaddr_response(response) ==
    IF Find(response, CgpaddrMarker) = 0 THEN NoIp
    ELSE
      LET after == Drop(response, Find(response, CgpaddrMarker) - 1 + 9)
      IN  IF Find(after, <<Quote>>) = 0 THEN NoIp
          ELSE
            LET quote_start == Find(after, <<Quote>>)
                inner       == Drop(after, quote_start)
            IN  IF Find(inner, <<Quote>>) = 0 THEN NoIp
                ELSE parse_ipv4(SubSeq(inner, 1, Find(inner, <<Quote>>) - 1))

\* get_ip_address, after its AT exchange returned resp_buf[..len]
get_ip_address(resp) ==
    IF Len(resp) > 0 /\ IsUtf8(resp) THEN parse_cgpaddr_response(resp)
    ELSE NoIp

ErrorToken == <<"E", "R", "R", "O", "R">>

OkToken == <<"O", "K">>

\* a test for ERROR on the raw bytes, without from_utf8
ActivateRejected_Bytes(resp) == Len(resp) > 0 /\ Contains(resp, ErrorToken)

\* activate: the test of the AT+CGACT=1,0 response for an explicit error
ActivateRejected(resp) ==
    Len(resp) > 0 /\ IsUtf8(resp) /\ Contains(resp, ErrorToken)

\* a test for OK on the raw bytes, without from_utf8
Acknowledged_Bytes(resp) == Len(resp) > 0 /\ Contains(resp, OkToken)

\* at_command_ok / deactivate: the test for the acknowledgement token
Acknowledged(resp) ==
    Len(resp) > 0 /\ IsUtf8(resp) /\ Contains(resp, OkToken)

Deactivated == [tag |-> "Deactivated", ip |-> NoIp]

Activated(ip) == [tag |-> "Activated", ip |-> ip]

\* ------------------------------------------------ AT commands and modem

CmdCeregEnable == "AT+CEREG=2"

CmdCeregQuery == "AT+CEREG?"

CmdCgdcont == "AT+CGDCONT=0,IP"

CmdCgact == "AT+CGACT=1,0"

CmdCgpaddr == "AT+CGPADDR=0"

CmdCfun == "AT+CFUN=1"

Idle == "idle"

\* "+CEREG: 2,<stat>", the reply to AT+CEREG?
CeregReply(stat) == CeregMarker \o <<" ", "2", ",", stat>>

\* "+CEREG: <stat>", the notification shape
CeregUrc(stat) == CeregMarker \o <<" ", stat>>

Ip5Text == <<"1", "0", ".", "0", ".", "0", ".", "5">>

Ip7Text == <<"1", "0", ".", "0", ".", "0", ".", "7">>

\* "+CGPADDR: 0,"<ip>"", the reply to AT+CGPADDR=0
CgpaddrReply(ipText) ==
    CgpaddrMarker \o <<" ", "0", ",", Quote>> \o ipText \o <<Quote>>

\* what the modem may answer to each command (resp_buf[..len])
CeregResponses ==
    {<<>>, ErrorToken, CeregReply("1"), CeregReply("2"), CeregUrc("0")}

CgpaddrResponses ==
    {<<>>, <<BadByte>>, CgpaddrReply(<<>>), CgpaddrReply(Ip5Text),
     CgpaddrReply(Ip7Text)}

CgactResponses == {<<>>, OkToken, ErrorToken, <<BadByte>> \o ErrorToken}

PlainResponses == {<<>>, OkToken, ErrorToken}

\* get_ip_address on each possible response, evaluated once
IpOf == [resp \in CgpaddrResponses |-> get_ip_address(resp)]

\* ----------------------------------------------------------------- state

\* number of query_status calls the registration monitor task makes
MaxQueries == 3

Tasks == {"reg", "pdp", "main"}

\* the tasks that call activate
ActCallers == {"pdp", "main"}

VARIABLES
    pc,            \* each task's position (the await it is suspended at)
    at,            \* each task's AT exchange in flight: the command, or Idle
    halted,        \* main panicked (fatal_error!, panic_halt): nothing runs
    last_status,   \* RegistrationMonitor.last_status
    regSignal,     \* REGISTRATION_SIGNAL: <<>> or <<status>>
    pdpSignal,     \* PDP_STATUS_SIGNAL: <<>> or <<PdpStatus>>
    stackCfg,      \* the address set by stack.set_config_v4, NoIp before
    status,        \* the local `status` of pdp_monitor_task and of main
    resp_buf,      \* activate's resp_buf[..len] after AT+CGACT=1,0
    phase,         \* pdp_monitor_task: 1 until the activation match is done
    requeried,     \* history: <<>>, or <<what the second loop's latest
                   \* get_ip_address gave>>
    queries,       \* history: query_status calls started
    parses,        \* history: what each query_status call parsed
    returns,       \* history: what each query_status call returned
    regWrites,     \* history: the values written to REGISTRATION_SIGNAL
    regTaken,      \* history: index in regWrites of the last value returned
    regTakeCount,  \* history: REGISTRATION_SIGNAL waits returned, per task
    pdpPubs,       \* history: the values written to PDP_STATUS_SIGNAL
    cfgCalls,      \* history: the configure_stack calls, <<caller, ip>>
    activations,   \* history: activate calls started, per caller
    log,           \* history: the timers, commands and results (the address
                   \* a query gave) of the latest activate, per caller
    ret,           \* history: what the latest activate returned
    waiter,        \* a caller of wait_for_activation: its position, the
                   \* values PDP_STATUS_SIGNAL.wait() gave it, its result
    call           \* a call of a parser: the function, its argument, its
                   \* result

taskVars == <<pc, at, halted>>

regVars == <<last_status, queries, parses, returns>>

regSigVars == <<regSignal, regWrites, regTaken, regTakeCount, status>>

pdpOutVars == <<pdpSignal, pdpPubs, stackCfg, cfgCalls, phase, requeried>>

actVars == <<resp_buf, activations, log, ret>>

\* the callers outside the three tasks
harnessVars == <<waiter, call>>

vars == <<taskVars, regVars, regSigVars, pdpOutVars, actVars, harnessVars>>

NotReturned == <<"running">>

Ok(ip) == <<"Ok", ip>>

ErrPdpActivation == <<"Err", "PdpActivation">>

\* the tasks as spawned, the monitor as RegistrationMonitor::new() leaves it,
\* both signals as Signal::new() leaves them
TasksInit ==
    /\ pc = [t \in Tasks |->
               CASE t = "reg" -> "r_enable"
                 [] t = "pdp" -> "p1_wait"
                 [] t = "main" -> "m_enable"]
    /\ at = [t \in Tasks |-> Idle]
    /\ halted = FALSE
    /\ last_status = "Unknown"
    /\ regSignal = <<>>
    /\ pdpSignal = <<>>
    /\ stackCfg = NoIp
    /\ status = [t \in ActCallers |-> NoStatus]
    /\ resp_buf = [t \in ActCallers |-> <<>>]
    /\ phase = 1
    /\ requeried = <<>>
    /\ queries = 0
    /\ parses = <<>>
    /\ returns = <<>>
    /\ regWrites = <<>>
    /\ regTaken = 0
    /\ regTakeCount = [t \in ActCallers |-> 0]
    /\ pdpPubs = <<>>
    /\ cfgCalls = <<>>
    /\ activations = [t \in ActCallers |-> 0]
    /\ log = [t \in ActCallers |-> <<>>]
    /\ ret = [t \in ActCallers |-> NotReturned]

\* wait_for_activation not called
NoWaiter == [pc |-> "w_idle", received |-> <<>>, ret |-> <<>>]

\* no parser called and no argument chosen.  given: what the argument is, a
\* status code ("u8") or a response ("cereg", "cgpaddr") made of lead, the
\* form's opening, the items and tail
NoCall == [fn |-> "none", given |-> "nothing", code |-> 0,
           form |-> "none", lead |-> <<>>, items |-> <<>>, tail |-> <<>>,
           status |-> NoStatus, ip |-> NoIp, registered |-> FALSE,
           sent |-> <<>>, result |-> <<"running">>]

Init ==
    /\ TasksInit
    /\ waiter = NoWaiter
    /\ call = NoCall

\* --------------------------------------------------------------- helpers

\* task t is suspended at label and the system has not halted
At(t, label) == ~halted /\ pc[t] = label

Goto(t, label) == pc' = [pc EXCEPT ![t] = label]

\* control.at_command(cmd, ..): the request goes out, the caller suspends
AtSend(t, cmd) == at[t] = Idle /\ at' = [at EXCEPT ![t] = cmd]

\* control.at_command(cmd, ..).await returns
AtReturn(t, cmd) == at[t] = cmd /\ at' = [at EXCEPT ![t] = Idle]

\* the entries of log: <<kind, what, result>>
TimerEvent(ms) == <<"timer", ms, NoIp>>

SendEvent(cmd) == <<"send", cmd, NoIp>>

\* result: the address a query gave, or the text kept from AT+CGACT=1,0
RecvEvent(cmd, result) == <<"recv", cmd, result>>

Logged(t, event) == log' = [log EXCEPT ![t] = Append(@, event)]

\* Signal::signal on REGISTRATION_SIGNAL: the slot is overwritten
RegSignalWrite(value) ==
    /\ regSignal' = <<value>>
    /\ regWrites' = Append(regWrites, value)

\* a wait() that leaves the value in the slot
SignalTaken_Kept(slot) == slot

\* the slot of a Signal after wait() returned its value
SignalTaken(slot) == <<>>

\* a wait that returns the value in the slot to every task that asks
RegSignalWait_Peek(t) ==
    /\ regSignal /= <<>>
    /\ status' = [status EXCEPT ![t] = regSignal[1]]
    /\ regTaken' = Len(regWrites)
    /\ regTakeCount' = [regTakeCount EXCEPT ![t] = @ + 1]
    /\ UNCHANGED <<regSignal, regWrites>>

\* Signal::wait on REGISTRATION_SIGNAL returns to task t: only with a value
\* in the slot, which it takes
RegSignalWait(t) ==
    /\ regSignal /= <<>>
    /\ status' = [status EXCEPT ![t] = regSignal[1]]
    /\ regSignal' = SignalTaken(regSignal)
    /\ regTaken' = Len(regWrites)
    /\ regTakeCount' = [regTakeCount EXCEPT ![t] = @ + 1]
    /\ UNCHANGED regWrites

\* Signal::signal on PDP_STATUS_SIGNAL
PdpSignalWrite(value) ==
    /\ pdpSignal' = <<value>>
    /\ pdpPubs' = Append(pdpPubs, value)

\* configure_stack(stack, ip, None)
configure_stack(t, ip) ==
    /\ stackCfg' = ip
    /\ cfgCalls' = Append(cfgCalls, <<t, ip>>)

\* ------------------------------------- registration_monitor_task (modem.rs)

\* enable_urcs: AT+CEREG=2 goes out
RegEnableSend ==
    /\ At("reg", "r_enable")
    /\ UNCHANGED harnessVars
    /\ AtSend("reg", CmdCeregEnable)
    /\ UNCHANGED <<pc, halted, regVars, regSigVars, pdpOutVars, actVars>>

\* enable_urcs: the response is dropped
RegEnableReturn ==
    /\ At("reg", "r_enable")
    /\ UNCHANGED harnessVars
    /\ \E resp \in PlainResponses : AtReturn("reg", CmdCeregEnable)
    /\ Goto("reg", "r_t100")
    /\ UNCHANGED <<halted, regVars, regSigVars, pdpOutVars, actVars>>

\* Timer::after_millis(100)
RegSettle ==
    /\ At("reg", "r_t100")
    /\ UNCHANGED harnessVars
    /\ Goto("reg", "r_query")
    /\ UNCHANGED <<at, halted, regVars, regSigVars, pdpOutVars, actVars>>

\* query_status: AT+CEREG? goes out
RegQuerySend ==
    /\ At("reg", "r_query")
    /\ UNCHANGED harnessVars
    /\ queries < MaxQueries
    /\ AtSend("reg", CmdCeregQuery)
    /\ queries' = queries + 1
    /\ UNCHANGED <<pc, halted, last_status, parses, returns, regSigVars,
                   pdpOutVars, actVars>>

\* a query_status that signals every status it parses
StatusChanged_Always(parsed, last) == TRUE

\* query_status: `status != self.last_status`
StatusChanged(parsed, last) == parsed /= last

\* a query_status that returns Unknown when it has no new status
QueryResult_Unknown(parsed, last) ==
    IF parsed /= NoStatus THEN parsed ELSE "Unknown"

\* query_status: `return status` on a successful parse, else self.last_status
QueryResult(parsed, last) == IF parsed /= NoStatus THEN parsed ELSE last

\* a query_status that signals a new status without storing it
query_status_NoStore(resp) ==
    LET parsed == IF Len(resp) > 0 THEN parse_cereg_response(resp)
                  ELSE NoStatus
    IN  /\ parses' = Append(parses, parsed)
        /\ returns' = Append(returns, QueryResult(parsed, last_status))
        /\ IF parsed /= NoStatus /\ StatusChanged(parsed, last_status)
           THEN /\ RegSignalWrite(parsed)
                /\ UNCHANGED last_status
           ELSE UNCHANGED <<last_status, regSignal, regWrites>>

\* query_status, from the return of its AT exchange to its own return
query_status(resp) ==
    LET parsed == IF Len(resp) > 0 THEN parse_cereg_response(resp)
                  ELSE NoStatus
    IN  /\ parses' = Append(parses, parsed)
        /\ returns' = Append(returns, QueryResult(parsed, last_status))
        /\ IF parsed /= NoStatus /\ StatusChanged(parsed, last_status)
           THEN /\ last_status' = parsed
                /\ RegSignalWrite(parsed)
           ELSE UNCHANGED <<last_status, regSignal, regWrites>>

RegQueryReturn ==
    /\ At("reg", "r_query")
    /\ UNCHANGED harnessVars
    /\ \E resp \in CeregResponses :
         /\ AtReturn("reg", CmdCeregQuery)
         /\ query_status(resp)
    /\ Goto("reg", "r_t30")
    /\ UNCHANGED <<halted, queries, regTaken, regTakeCount, status,
                   pdpOutVars, actVars>>

\* a monitor loop that ends after its first timer
RegInterval_Once ==
    /\ At("reg", "r_t30")
    /\ UNCHANGED harnessVars
    /\ Goto("reg", "r_done")
    /\ UNCHANGED <<at, halted, regVars, regSigVars, pdpOutVars, actVars>>

\* Timer::after_secs(30)
RegInterval ==
    /\ At("reg", "r_t30")
    /\ UNCHANGED harnessVars
    /\ Goto("reg", "r_query")
    /\ UNCHANGED <<at, halted, regVars, regSigVars, pdpOutVars, actVars>>

\* ------------------------------------------------------ activate (pdp.rs)

\* a caller enters activate
ActivateCall(t) ==
    /\ Goto(t, "a_t1000")
    /\ activations' = [activations EXCEPT ![t] = @ + 1]
    /\ log' = [log EXCEPT ![t] = <<>>]
    /\ ret' = [ret EXCEPT ![t] = NotReturned]
    /\ resp_buf' = [resp_buf EXCEPT ![t] = <<>>]

\* an activation match whose two arms both publish Deactivated
ActivationStatus_Deactivated(ip) == Deactivated

\* pdp_monitor_task: what the activation match publishes
ActivationStatus(ip) == IF ip /= NoIp THEN Activated(ip) ELSE Deactivated

\* activate returns to its caller, which handles the result without
\* suspending: pdp_monitor_task's match, main's match
ActivateReturn(t, ip) ==
    /\ ret' = [ret EXCEPT ![t] = IF ip /= NoIp THEN Ok(ip)
                                 ELSE ErrPdpActivation]
    /\ resp_buf' = [resp_buf EXCEPT ![t] = <<>>]
    /\ IF t = "pdp"
       THEN /\ IF ip /= NoIp THEN configure_stack(t, ip)
               ELSE UNCHANGED <<stackCfg, cfgCalls>>
            /\ PdpSignalWrite(ActivationStatus(ip))
            /\ phase' = 2
            /\ Goto(t, "p2_wait")
            /\ UNCHANGED <<halted, requeried>>
       ELSE /\ IF ip /= NoIp
               THEN /\ configure_stack(t, ip)
                    /\ Goto(t, "m_net")
                    /\ UNCHANGED halted
               ELSE /\ Goto(t, "m_fatal")
                    /\ halted' = TRUE
                    /\ UNCHANGED <<stackCfg, cfgCalls>>
            /\ UNCHANGED <<pdpSignal, pdpPubs, phase, requeried>>

\* Timer::after_millis(1000) on entry
ActSettle(t) ==
    /\ At(t, "a_t1000")
    /\ UNCHANGED harnessVars
    /\ Goto(t, "a_ip1")
    /\ Logged(t, TimerEvent("1000ms"))
    /\ UNCHANGED <<at, halted, regVars, regSigVars, pdpOutVars, resp_buf,
                   activations, ret>>

\* the first get_ip_address: AT+CGPADDR=0 goes out
ActFirstQuerySend(t) ==
    /\ At(t, "a_ip1")
    /\ UNCHANGED harnessVars
    /\ AtSend(t, CmdCgpaddr)
    /\ Logged(t, SendEvent(CmdCgpaddr))
    /\ UNCHANGED <<pc, halted, regVars, regSigVars, pdpOutVars, resp_buf,
                   activations, ret>>

\* an activate that goes on to define the context whatever the first query gave
FirstQueryReturns_Never(ip) == FALSE

\* `if let Some(ip) = get_ip_address(control).await { return Ok(ip); }`
FirstQueryReturns(ip) == ip /= NoIp

ActFirstQueryReturn(t) ==
    /\ At(t, "a_ip1")
    /\ UNCHANGED harnessVars
    /\ \E resp \in CgpaddrResponses :
         /\ AtReturn(t, CmdCgpaddr)
         /\ Logged(t, RecvEvent(CmdCgpaddr, IpOf[resp]))
         /\ IF FirstQueryReturns(IpOf[resp])
            THEN ActivateReturn(t, IpOf[resp])
            ELSE /\ Goto(t, "a_cgdcont")
                 /\ UNCHANGED <<halted, pdpOutVars, ret, resp_buf>>
    /\ UNCHANGED <<regVars, regSigVars, activations>>

\* an activate that goes on to AT+CGACT without defining the context
ActDefineSend_Skipped(t) ==
    /\ At(t, "a_cgdcont")
    /\ UNCHANGED harnessVars
    /\ Goto(t, "a_cgact")
    /\ UNCHANGED <<at, halted, regVars, regSigVars, pdpOutVars, actVars>>

\* AT+CGDCONT=0,"IP" goes out
ActDefineSend(t) ==
    /\ At(t, "a_cgdcont")
    /\ UNCHANGED harnessVars
    /\ AtSend(t, CmdCgdcont)
    /\ Logged(t, SendEvent(CmdCgdcont))
    /\ UNCHANGED <<pc, halted, regVars, regSigVars, pdpOutVars, resp_buf,
                   activations, ret>>

\* the response to AT+CGDCONT is dropped
ActDefineReturn(t) ==
    /\ At(t, "a_cgdcont")
    /\ UNCHANGED harnessVars
    /\ \E resp \in PlainResponses :
         /\ AtReturn(t, CmdCgdcont)
         /\ Logged(t, RecvEvent(CmdCgdcont, NoIp))
    /\ Goto(t, "a_t100")
    /\ UNCHANGED <<halted, regVars, regSigVars, pdpOutVars, resp_buf,
                   activations, ret>>

\* Timer::after_millis(100)
ActDefineSettle(t) ==
    /\ At(t, "a_t100")
    /\ UNCHANGED harnessVars
    /\ Goto(t, "a_cgact")
    /\ Logged(t, TimerEvent("100ms"))
    /\ UNCHANGED <<at, halted, regVars, regSigVars, pdpOutVars, resp_buf,
                   activations, ret>>

\* AT+CGACT=1,0 goes out
ActActivateSend(t) ==
    /\ At(t, "a_cgact")
    /\ UNCHANGED harnessVars
    /\ AtSend(t, CmdCgact)
    /\ Logged(t, SendEvent(CmdCgact))
    /\ UNCHANGED <<pc, halted, regVars, regSigVars, pdpOutVars, resp_buf,
                   activations, ret>>

\* the response to AT+CGACT=1,0 is kept in resp_buf[..len]
ActActivateReturn(t) ==
    /\ At(t, "a_cgact")
    /\ UNCHANGED harnessVars
    /\ \E resp \in CgactResponses :
         /\ AtReturn(t, CmdCgact)
         /\ Logged(t, RecvEvent(CmdCgact, resp))
         /\ resp_buf' = [resp_buf EXCEPT ![t] = resp]
    /\ Goto(t, "a_t1000b")
    /\ UNCHANGED <<halted, regVars, regSigVars, pdpOutVars, activations,
                   ret>>

\* an activate without the backoff branch
AfterActivateSettle_NoBackoff(resp) == "a_ip_final"

\* where activate goes once the settle delay after AT+CGACT is over
AfterActivateSettle(resp) ==
    IF ActivateRejected(resp) THEN "a_t2000" ELSE "a_ip_final"

\* Timer::after_millis(1000), then the test of the kept response
ActActivateSettle(t) ==
    /\ At(t, "a_t1000b")
    /\ UNCHANGED harnessVars
    /\ Goto(t, AfterActivateSettle(resp_buf[t]))
    /\ Logged(t, TimerEvent("1000ms"))
    /\ UNCHANGED <<at, halted, regVars, regSigVars, pdpOutVars, resp_buf,
                   activations, ret>>

\* Timer::after_millis(2000), the backoff after an explicit error
ActBackoff(t) ==
    /\ At(t, "a_t2000")
    /\ UNCHANGED harnessVars
    /\ Goto(t, "a_ip_err")
    /\ Logged(t, TimerEvent("2000ms"))
    /\ UNCHANGED <<at, halted, regVars, regSigVars, pdpOutVars, resp_buf,
                   activations, ret>>

\* get_ip_address after the backoff: AT+CGPADDR=0 goes out
ActRetryQuerySend(t) ==
    /\ At(t, "a_ip_err")
    /\ UNCHANGED harnessVars
    /\ AtSend(t, CmdCgpaddr)
    /\ Logged(t, SendEvent(CmdCgpaddr))
    /\ UNCHANGED <<pc, halted, regVars, regSigVars, pdpOutVars, resp_buf,
                   activations, ret>>

\* `return get_ip_address(control).await.ok_or(Error::PdpActivation)`
ActRetryQueryReturn(t) ==
    /\ At(t, "a_ip_err")
    /\ UNCHANGED harnessVars
    /\ \E resp \in CgpaddrResponses :
         /\ AtReturn(t, CmdCgpaddr)
         /\ Logged(t, RecvEvent(CmdCgpaddr, IpOf[resp]))
         /\ ActivateReturn(t, IpOf[resp])
    /\ UNCHANGED <<regVars, regSigVars, activations>>

\* the last get_ip_address: AT+CGPADDR=0 goes out
ActFinalQuerySend(t) ==
    /\ At(t, "a_ip_final")
    /\ UNCHANGED harnessVars
    /\ AtSend(t, CmdCgpaddr)
    /\ Logged(t, SendEvent(CmdCgpaddr))
    /\ UNCHANGED <<pc, halted, regVars, regSigVars, pdpOutVars, resp_buf,
                   activations, ret>>

\* `get_ip_address(control).await.ok_or(Error::PdpActivation)`
ActFinalQueryReturn(t) ==
    /\ At(t, "a_ip_final")
    /\ UNCHANGED harnessVars
    /\ \E resp \in CgpaddrResponses :
         /\ AtReturn(t, CmdCgpaddr)
         /\ Logged(t, RecvEvent(CmdCgpaddr, IpOf[resp]))
         /\ ActivateReturn(t, IpOf[resp])
    /\ UNCHANGED <<regVars, regSigVars, activations>>

\* ---------------------------------------------- pdp_monitor_task (pdp.rs)

\* the first loop: wait_for_status_change().await, break once registered
\* a first loop that reports each status that is not a registration
PdpWaitInitial_Publishing ==
    /\ At("pdp", "p1_wait")
    /\ UNCHANGED harnessVars
    /\ RegSignalWait("pdp")
    /\ IF is_registered(regSignal[1])
       THEN /\ Goto("pdp", "p1_t500")
            /\ UNCHANGED <<pdpSignal, pdpPubs>>
       ELSE /\ PdpSignalWrite(Deactivated)
            /\ UNCHANGED pc
    /\ UNCHANGED <<at, halted, regVars, stackCfg, cfgCalls, phase, requeried,
                   actVars>>


PdpWaitInitial ==
    /\ At("pdp", "p1_wait")
    /\ UNCHANGED harnessVars
    /\ RegSignalWait("pdp")
    /\ Goto("pdp", IF is_registered(regSignal[1]) THEN "p1_t500"
                   ELSE "p1_wait")
    /\ UNCHANGED <<at, halted, regVars, pdpOutVars, actVars>>

\* Timer::after_millis(500), then activate is entered
PdpSettleInitial ==
    /\ At("pdp", "p1_t500")
    /\ UNCHANGED harnessVars
    /\ ActivateCall("pdp")
    /\ UNCHANGED <<at, halted, regVars, regSigVars, pdpOutVars>>

\* a second loop that deactivates on NotRegistered alone
SteadyDeactivates_NotRegisteredOnly(st) == st = "NotRegistered"

\* the second loop's else branch is taken for these statuses
SteadyDeactivates(st) == ~is_registered(st)

\* a second loop that resets the stack when the registration is lost
PdpWaitSteady_Resetting ==
    /\ At("pdp", "p2_wait")
    /\ UNCHANGED harnessVars
    /\ RegSignalWait("pdp")
    /\ IF SteadyDeactivates(regSignal[1])
       THEN /\ configure_stack("pdp", NoIp)
            /\ PdpSignalWrite(Deactivated)
            /\ UNCHANGED pc
       ELSE /\ Goto("pdp", "p2_t500")
            /\ UNCHANGED <<pdpSignal, pdpPubs, stackCfg, cfgCalls>>
    /\ UNCHANGED <<at, halted, regVars, phase, requeried, actVars>>

\* the second loop: wait_for_status_change().await and the branch on it
PdpWaitSteady ==
    /\ At("pdp", "p2_wait")
    /\ UNCHANGED harnessVars
    /\ RegSignalWait("pdp")
    /\ IF SteadyDeactivates(regSignal[1])
       THEN /\ PdpSignalWrite(Deactivated)
            /\ UNCHANGED pc
       ELSE /\ Goto("pdp", "p2_t500")
            /\ UNCHANGED <<pdpSignal, pdpPubs>>
    /\ UNCHANGED <<at, halted, regVars, stackCfg, cfgCalls, phase, requeried,
                   actVars>>

\* a second loop that runs the whole activation again
PdpSettleSteady_Reactivates ==
    /\ At("pdp", "p2_t500")
    /\ UNCHANGED harnessVars
    /\ ActivateCall("pdp")
    /\ UNCHANGED <<at, halted, regVars, regSigVars, pdpOutVars>>

\* Timer::after_millis(500) before the re-check
PdpSettleSteady ==
    /\ At("pdp", "p2_t500")
    /\ UNCHANGED harnessVars
    /\ Goto("pdp", "p2_ip")
    /\ UNCHANGED <<at, halted, regVars, regSigVars, pdpOutVars, actVars>>

\* the command the second loop's re-check sends (get_ip_address)
SteadyCommand == CmdCgpaddr

PdpRequerySend ==
    /\ At("pdp", "p2_ip")
    /\ UNCHANGED harnessVars
    /\ AtSend("pdp", SteadyCommand)
    /\ UNCHANGED <<pc, halted, regVars, regSigVars, pdpOutVars, actVars>>

\* a re-check that publishes whatever the query gave
RequeryPublishes_Always(ip) == TRUE

\* `if let Some(ip) = get_ip_address(control).await`
RequeryPublishes(ip) == ip /= NoIp

\* a re-check that publishes the address without configuring the stack
PdpRequeryReturn_NoConfigure ==
    /\ At("pdp", "p2_ip")
    /\ UNCHANGED harnessVars
    /\ \E resp \in CgpaddrResponses :
         /\ AtReturn("pdp", SteadyCommand)
         /\ requeried' = <<IpOf[resp]>>
         /\ IF RequeryPublishes(IpOf[resp])
            THEN /\ PdpSignalWrite(Activated(IpOf[resp]))
                 /\ UNCHANGED <<stackCfg, cfgCalls>>
            ELSE UNCHANGED <<stackCfg, cfgCalls, pdpSignal, pdpPubs>>
    /\ Goto("pdp", "p2_wait")
    /\ UNCHANGED <<halted, regVars, regSigVars, phase, actVars>>

\* the re-check returns: configure_stack and the publication, or nothing

PdpRequeryReturn ==
    /\ At("pdp", "p2_ip")
    /\ UNCHANGED harnessVars
    /\ \E resp \in CgpaddrResponses :
         /\ AtReturn("pdp", SteadyCommand)
         /\ requeried' = <<IpOf[resp]>>
         /\ IF RequeryPublishes(IpOf[resp])
            THEN /\ configure_stack("pdp", IpOf[resp])
                 /\ PdpSignalWrite(Activated(IpOf[resp]))
            ELSE UNCHANGED <<stackCfg, cfgCalls, pdpSignal, pdpPubs>>
    /\ Goto("pdp", "p2_wait")
    /\ UNCHANGED <<halted, regVars, regSigVars, phase, actVars>>

\* ------------------------------------------------------------ main.rs

\* modem::enable: AT+CFUN=1 goes out
MainEnableSend ==
    /\ At("main", "m_enable")
    /\ UNCHANGED harnessVars
    /\ AtSend("main", CmdCfun)
    /\ UNCHANGED <<pc, halted, regVars, regSigVars, pdpOutVars, actVars>>

\* modem::enable returns; Err is fatal
MainEnableReturn ==
    /\ At("main", "m_enable")
    /\ UNCHANGED harnessVars
    /\ \E resp \in PlainResponses :
         /\ AtReturn("main", CmdCfun)
         /\ IF Acknowledged(resp)
            THEN Goto("main", "m_t500") /\ UNCHANGED halted
            ELSE Goto("main", "m_fatal") /\ halted' = TRUE
    /\ UNCHANGED <<regVars, regSigVars, pdpOutVars, actVars>>

\* Timer::after_millis(500)
MainSettle ==
    /\ At("main", "m_t500")
    /\ UNCHANGED harnessVars
    /\ Goto("main", "m_wait1")
    /\ UNCHANGED <<at, halted, regVars, regSigVars, pdpOutVars, actVars>>

\* the registration loop: wait_for_status_change().await
MainWaitRegistration ==
    /\ At("main", "m_wait1")
    /\ UNCHANGED harnessVars
    /\ RegSignalWait("main")
    /\ Goto("main", "m_led1")
    /\ UNCHANGED <<at, halted, regVars, pdpOutVars, actVars>>

\* Timer::after_millis(100) with the LED on, the loop goes on: not registered
MainBlinkRetry ==
    /\ At("main", "m_led1")
    /\ UNCHANGED harnessVars
    /\ ~is_registered(status["main"])
    /\ Goto("main", "m_wait1")
    /\ UNCHANGED <<at, halted, regVars, regSigVars, pdpOutVars, actVars>>

\* Timer::after_millis(100) with the LED on, break, activate is entered
MainBlinkActivate ==
    /\ At("main", "m_led1")
    /\ UNCHANGED harnessVars
    /\ is_registered(status["main"])
    /\ ActivateCall("main")
    /\ UNCHANGED <<at, halted, regVars, regSigVars, pdpOutVars>>

\* a main that publishes the address it configured on PDP_STATUS_SIGNAL
MainNetwork_Publishing ==
    /\ At("main", "m_net")
    /\ UNCHANGED harnessVars
    /\ Goto("main", "m_wait2")
    /\ PdpSignalWrite(Activated(stackCfg))
    /\ UNCHANGED <<at, halted, regVars, regSigVars, stackCfg, cfgCalls,
                   phase, requeried, actVars>>

\* network::wait_for_config and the TCP demonstration
MainNetwork ==
    /\ At("main", "m_net")
    /\ UNCHANGED harnessVars
    /\ Goto("main", "m_wait2")
    /\ UNCHANGED <<at, halted, regVars, regSigVars, pdpOutVars, actVars>>

\* the application loop: wait_for_status_change().await
MainWaitChange ==
    /\ At("main", "m_wait2")
    /\ UNCHANGED harnessVars
    /\ RegSignalWait("main")
    /\ Goto("main", "m_led2")
    /\ UNCHANGED <<at, halted, regVars, pdpOutVars, actVars>>

\* Timer::after_millis(100) with the LED on
MainBlink ==
    /\ At("main", "m_led2")
    /\ UNCHANGED harnessVars
    /\ Goto("main", "m_wait2")
    /\ UNCHANGED <<at, halted, regVars, regSigVars, pdpOutVars, actVars>>

\* -------------------------------------------------------- specification

RegStep ==
    \/ RegEnableSend
    \/ RegEnableReturn
    \/ RegSettle
    \/ RegQuerySend
    \/ RegQueryReturn
    \/ RegInterval

ActStep(t) ==
    \/ ActSettle(t)
    \/ ActFirstQuerySend(t)
    \/ ActFirstQueryReturn(t)
    \/ ActDefineSend(t)
    \/ ActDefineReturn(t)
    \/ ActDefineSettle(t)
    \/ ActActivateSend(t)
    \/ ActActivateReturn(t)
    \/ ActActivateSettle(t)
    \/ ActBackoff(t)
    \/ ActRetryQuerySend(t)
    \/ ActRetryQueryReturn(t)
    \/ ActFinalQuerySend(t)
    \/ ActFinalQueryReturn(t)

PdpStep ==
    \/ PdpWaitInitial
    \/ PdpSettleInitial
    \/ PdpWaitSteady
    \/ PdpSettleSteady
    \/ PdpRequerySend
    \/ PdpRequeryReturn

MainStep ==
    \/ MainEnableSend
    \/ MainEnableReturn
    \/ MainSettle
    \/ MainWaitRegistration
    \/ MainBlinkRetry
    \/ MainBlinkActivate
    \/ MainNetwork
    \/ MainWaitChange
    \/ MainBlink

Next ==
    \/ RegStep
    \/ PdpStep
    \/ MainStep
    \/ \E t \in ActCallers : ActStep(t)

Spec == Init /\ [][Next]_vars

\* ---------------------------------------------------------------- claims

Ip5 == <<10, 0, 0, 5>>

Ip7 == <<10, 0, 0, 7>>

\* the step is a return of query_status
QueryReturned == Len(parses') = Len(parses) + 1

\* the step is a write to REGISTRATION_SIGNAL
RegWritten == regWrites' /= regWrites

\* the step is a return of REGISTRATION_SIGNAL.wait() to task t
Took(t) == regTakeCount'[t] /= regTakeCount[t]

\* the step sends an AT command of task t
Sent(t) == at[t] = Idle /\ at'[t] /= Idle

\* the step is the return of an AT exchange of task t
Returned(t) == at[t] /= Idle /\ at'[t] = Idle

\* task t is inside activate
InActivate(t) ==
    pc[t] \in {"a_t1000", "a_ip1", "a_cgdcont", "a_t100", "a_cgact",
               "a_t1000b", "a_t2000", "a_ip_err", "a_ip_final"}

\* the configure_stack calls of task t, in order
ConfiguredBy(t) == SelectSeq(cfgCalls, LAMBDA c : c[1] = t)

\* C1: REGISTRATION_SIGNAL is written only by a query_status call whose
\* parsed status differs from the stored last_status, and then with that
\* status; a call that parses nothing or the stored status writes nothing;
\* so no two consecutive writes carry the same value.
C1_WriteOnlyOnChange ==
    /\ [](\A i \in 1..(Len(regWrites) - 1) : regWrites[i] /= regWrites[i + 1])
    /\ [][RegWritten => QueryReturned]_vars
    /\ [][QueryReturned =>
            LET parsed == parses'[Len(parses')]
            IN  IF parsed /= NoStatus /\ parsed /= last_status
                THEN /\ regWrites' = Append(regWrites, parsed)
                     /\ regSignal' = <<parsed>>
                     /\ last_status' = parsed
                ELSE /\ regWrites' = regWrites
                     /\ regSignal' = regSignal
                     /\ last_status' = last_status]_vars

\* two consecutive identical queried statuses gave exactly one write
C1_Witness ==
    /\ parses = <<"RegisteredHome", "RegisteredHome">>
    /\ regWrites = <<"RegisteredHome">>

\* C2: whenever activate sends an AT command, the registration monitor's
\* last_status is RegisteredHome or RegisteredRoaming.
C2_ActivateOnlyWhileRegistered ==
    [][\A t \in ActCallers :
         (InActivate(t) /\ Sent(t)) => is_registered(last_status)]_vars

\* C3: never two callers inside control.at_command at once.
C3_SingleExchangeInFlight == Cardinality({t \in Tasks : at[t] /= Idle}) <= 1

\* C4: a wait on the Registration Signal returns the value written last,
\* empties the slot, and returns a written value at most once (an overwritten
\* value is never returned); with the slot empty no wait can return.
C4_LastValueWins ==
    /\ [][\A t \in ActCallers :
            Took(t) => /\ regWrites /= <<>>
                       /\ status'[t] = regWrites[Len(regWrites)]
                       /\ regTaken' = Len(regWrites)
                       /\ regTaken < Len(regWrites)
                       /\ regSignal' = <<>>]_vars
    /\ [](regSignal = <<>> =>
            ~ENABLED (PdpWaitInitial \/ PdpWaitSteady \/ MainWaitRegistration
                      \/ MainWaitChange))

\* two values were written before any wait; the one wait so far returned the
\* second, and the slot is empty
C4_Witness ==
    /\ Len(regWrites) = 2
    /\ regTakeCount["pdp"] + regTakeCount["main"] = 1
    /\ regTaken = 2
    /\ regSignal = <<>>
    /\ \E t \in ActCallers : regTakeCount[t] = 1 /\ status[t] = regWrites[2]

IsSend(e, cmd) == e[1] = "send" /\ e[2] = cmd

IsRecv(e, cmd) == e[1] = "recv" /\ e[2] = cmd

\* the commands sent in the latest activate call of t, in order
SentIn(t) ==
    LET sends == SelectSeq(log[t], LAMBDA e : e[1] = "send")
    IN  [i \in 1..Len(sends) |-> sends[i][2]]

\* the first address query of the latest activate call of t has returned
FirstQueryDone(t) == Len(log[t]) >= 3 /\ IsRecv(log[t][3], CmdCgpaddr)

\* the places in log[t] of the responses to AT+CGACT=1,0
CgactAnswers(t) == {k \in 1..Len(log[t]) : IsRecv(log[t][k], CmdCgact)}

\* what the latest activate call of t logged after the response to AT+CGACT
AfterCgact(t) ==
    SubSeq(log[t], (CHOOSE k \in CgactAnswers(t) : TRUE) + 1, Len(log[t]))

\* the text kept from AT+CGACT=1,0 in the latest activate call of t
CgactText(t) == log[t][CHOOSE k \in CgactAnswers(t) : TRUE][3]

\* a response that is non-empty text holding the token ERROR
ExplicitError(resp) ==
    resp /= <<>> /\ (\A i \in 1..Len(resp) : resp[i] /= BadByte)
    /\ \E i \in 1..(Len(resp) - 4) : SubSeq(resp, i, i + 4) = ErrorToken

\* what activate returns for the address its last query gave
ResultFor(ip) == IF ip /= NoIp THEN Ok(ip) ELSE ErrPdpActivation

\* C5: if the first address query of activate yields an address, that call
\* sends nothing else (no AT+CGDCONT, no AT+CGACT=1,0) and returns Ok with
\* exactly that address.
C5_EarlyReturn ==
    \A t \in ActCallers :
      (FirstQueryDone(t) /\ log[t][3][3] /= NoIp) =>
        /\ Len(log[t]) = 3
        /\ SentIn(t) = <<CmdCgpaddr>>
        /\ ret[t] = Ok(log[t][3][3])

\* activate returned the address its first query gave, after one command
C5_Witness ==
    \E t \in ActCallers :
      /\ ret[t] = Ok(Ip5)
      /\ log[t] = <<TimerEvent("1000ms"), SendEvent(CmdCgpaddr),
                    RecvEvent(CmdCgpaddr, Ip5)>>

\* C6: when the first query found no address and the response to
\* AT+CGACT=1,0 holds no explicit error (it may be empty or not text), what
\* follows in the call is the 1000 ms settle, exactly one address query with
\* no 2000 ms backoff, and the return of Ok(address) or Err(PdpActivation)
\* according to that query.
C6_NoErrorPath ==
    \A t \in ActCallers :
      (/\ FirstQueryDone(t) /\ log[t][3][3] = NoIp
       /\ CgactAnswers(t) /= {}
       /\ ~ExplicitError(CgactText(t))) =>
        LET rest == AfterCgact(t)
        IN  /\ Cardinality(CgactAnswers(t)) = 1
            /\ Len(rest) <= 3
            /\ Len(rest) >= 1 => rest[1] = TimerEvent("1000ms")
            /\ Len(rest) >= 2 => rest[2] = SendEvent(CmdCgpaddr)
            /\ Len(rest) >= 3 => IsRecv(rest[3], CmdCgpaddr)
            /\ ret[t] = IF Len(rest) < 3 THEN NotReturned
                        ELSE ResultFor(rest[3][3])

\* the response to AT+CGACT=1,0 was not text (though it holds the bytes of
\* ERROR); one more query followed, with no backoff, and gave the address
C6_Witness ==
    \E t \in ActCallers :
      /\ CgactAnswers(t) /= {}
      /\ CgactText(t) = <<BadByte>> \o ErrorToken
      /\ AfterCgact(t) = <<TimerEvent("1000ms"), SendEvent(CmdCgpaddr),
                           RecvEvent(CmdCgpaddr, Ip5)>>
      /\ ret[t] = Ok(Ip5)

\* C7: when the response to AT+CGACT=1,0 holds an explicit error, what
\* follows in the call is the 1000 ms settle, the 2000 ms backoff once,
\* exactly one address query, and the return of Ok(address) or
\* Err(PdpActivation) according to that query; AT+CGDCONT and AT+CGACT=1,0
\* are each sent once in the call.
C7_ErrorPath ==
    \A t \in ActCallers :
      (CgactAnswers(t) /= {} /\ ExplicitError(CgactText(t))) =>
        LET rest == AfterCgact(t)
        IN  /\ Cardinality(CgactAnswers(t)) = 1
            /\ Len(rest) <= 4
            /\ Len(rest) >= 1 => rest[1] = TimerEvent("1000ms")
            /\ Len(rest) >= 2 => rest[2] = TimerEvent("2000ms")
            /\ Len(rest) >= 3 => rest[3] = SendEvent(CmdCgpaddr)
            /\ Len(rest) >= 4 => IsRecv(rest[4], CmdCgpaddr)
            /\ \A n \in 1..Len(SentIn(t)) :
                 SentIn(t)[n] = <<CmdCgpaddr, CmdCgdcont, CmdCgact,
                                  CmdCgpaddr>>[n]
            /\ Len(SentIn(t)) <= 4
            /\ ret[t] = IF Len(rest) < 4 THEN NotReturned
                        ELSE ResultFor(rest[4][3])

\* an explicit error, the backoff, a query that gave nothing, and the failure
C7_Witness ==
    \E t \in ActCallers :
      /\ CgactAnswers(t) /= {}
      /\ CgactText(t) = ErrorToken
      /\ AfterCgact(t) = <<TimerEvent("1000ms"), TimerEvent("2000ms"),
                           SendEvent(CmdCgpaddr), RecvEvent(CmdCgpaddr, NoIp)>>
      /\ ret[t] = ErrPdpActivation

\* C8: in the first phase of pdp_monitor_task nothing is published and the
\* stack is not configured; the step that ends the phase is the return of
\* the one activate call, and it publishes exactly one PdpStatus: on Ok(ip)
\* one configure_stack call with ip and Activated{ip}, on Err Deactivated
\* and no configure_stack call.
C8_InitialActivation ==
    /\ [](phase = 1 => pdpPubs = <<>> /\ ConfiguredBy("pdp") = <<>>)
    /\ [][(phase = 1 /\ phase' = 2) =>
            /\ activations'["pdp"] = 1
            /\ ret["pdp"] = NotReturned
            /\ ret'["pdp"] /= NotReturned
            /\ ret'["pdp"] = ResultFor(log'["pdp"][Len(log'["pdp"])][3])
            /\ IF ret'["pdp"][1] = "Ok"
               THEN /\ pdpPubs' = <<Activated(ret'["pdp"][2])>>
                    /\ pdpSignal' = <<Activated(ret'["pdp"][2])>>
                    /\ ConfiguredBy("pdp")' = <<<<"pdp", ret'["pdp"][2]>>>>
                    /\ stackCfg' = ret'["pdp"][2]
               ELSE /\ pdpPubs' = <<Deactivated>>
                    /\ pdpSignal' = <<Deactivated>>
                    /\ ConfiguredBy("pdp")' = <<>>
                    /\ stackCfg' = stackCfg]_vars

\* the Registration Signal gave Searching, then RegisteredHome, the address
\* query succeeded: one Activated{ip}, one configuration call with ip
C8_Witness ==
    /\ regWrites = <<"Searching", "RegisteredHome">>
    /\ regTakeCount["pdp"] = 2
    /\ phase = 2
    /\ ret["pdp"] = Ok(Ip5)
    /\ pdpPubs = <<Activated(Ip5)>>
    /\ cfgCalls = <<<<"pdp", Ip5>>>>

\* C9 as stated: whenever pdp_monitor_task receives a status that is not
\* registered, in either phase, it publishes Deactivated in that step and
\* sends no AT command.
C9_DeactivatedOnEveryLoss ==
    [][(Took("pdp") /\ ~is_registered(status'["pdp"])) =>
         /\ pdpPubs' = Append(pdpPubs, Deactivated)
         /\ at' = at]_vars

\* C9 as amended: in the second phase a received status that is not
\* registered makes pdp_monitor_task publish Deactivated in that step,
\* whatever it published before, with no AT command and the stack left as it
\* is; in the first phase such a status is consumed and nothing is published.
C9_DeactivatedInSteadyState ==
    [][(Took("pdp") /\ ~is_registered(status'["pdp"])) =>
         /\ at' = at
         /\ stackCfg' = stackCfg
         /\ IF phase = 2
            THEN /\ pdpPubs' = Append(pdpPubs, Deactivated)
                 /\ pdpSignal' = <<Deactivated>>
            ELSE /\ pdpPubs' = pdpPubs
                 /\ pdpSignal' = pdpSignal]_vars

\* Searching, received in the second phase after an Activated publication,
\* gave a Deactivated publication
C9_Witness ==
    /\ phase = 2
    /\ status["pdp"] = "Searching"
    /\ Len(pdpPubs) = 2
    /\ pdpPubs[1].tag = "Activated"
    /\ pdpPubs[2] = Deactivated
    /\ pdpSignal = <<Deactivated>>

\* C10: in the second phase pdp_monitor_task sends only AT+CGPADDR=0; a
\* registered status received publishes nothing by itself; when the query
\* returns an address, configure_stack is called with it and Activated{ip}
\* is published; when it returns none, nothing is published and the stack
\* configuration is left as it is.
C10_SteadyRequery ==
    /\ [][(phase = 2 /\ Sent("pdp")) => at'["pdp"] = CmdCgpaddr]_vars
    /\ [][(phase = 2 /\ Took("pdp") /\ is_registered(status'["pdp"])) =>
            /\ pdpPubs' = pdpPubs
            /\ pdpSignal' = pdpSignal
            /\ cfgCalls' = cfgCalls]_vars
    /\ [][(phase = 2 /\ Returned("pdp")) =>
            /\ requeried' /= <<>>
            /\ IF requeried'[1] /= NoIp
               THEN /\ cfgCalls' = Append(cfgCalls, <<"pdp", requeried'[1]>>)
                    /\ stackCfg' = requeried'[1]
                    /\ pdpPubs' = Append(pdpPubs, Activated(requeried'[1]))
                    /\ pdpSignal' = <<Activated(requeried'[1])>>
               ELSE /\ cfgCalls' = cfgCalls
                    /\ stackCfg' = stackCfg
                    /\ pdpPubs' = pdpPubs
                    /\ pdpSignal' = pdpSignal]_vars

\* the second phase's query gave no address: Activated{10.0.0.5}, published
\* by the first phase, is still the latest PdpStatus
C10_Witness ==
    /\ phase = 2
    /\ requeried = <<NoIp>>
    /\ regTakeCount["pdp"] = 2
    /\ pdpPubs = <<Activated(Ip5)>>
    /\ pdpSignal = <<Activated(Ip5)>>
    /\ stackCfg = Ip5

\* C11: an activation failure of pdp_monitor_task becomes one Deactivated
\* publication and is never retried: the task enters activate at most once in
\* its lifetime, the failed match publishes Deactivated and goes to the second
\* loop, and after the match the only command the task sends is the address
\* query (never define-context or activate-context again).
C11_ActivationNeverRetried ==
    [][/\ activations'["pdp"] <= 1
       /\ (phase = 2 /\ Sent("pdp")) => at'["pdp"] = CmdCgpaddr
       /\ (phase = 1 /\ phase' = 2 /\ ret'["pdp"] = ErrPdpActivation)
            => /\ pdpPubs' = <<Deactivated>>
               /\ pdpSignal' = <<Deactivated>>
               /\ pc'["pdp"] = "p2_wait"
               /\ stackCfg' = stackCfg]_vars

\* the activation failed, and a later registered status was handled by the
\* address query alone
C11_Witness ==
    /\ phase = 2
    /\ ret["pdp"] = ErrPdpActivation
    /\ activations["pdp"] = 1
    /\ pdpPubs[1] = Deactivated
    /\ requeried /= <<>>
    /\ regTakeCount["pdp"] >= 2

\* ------------------------------------------- wait_for_activation (pdp.rs)

\* the publications PDP_STATUS_SIGNAL receives while a caller waits
MaxPublished == 3

PdpStatuses == {Deactivated, Activated(Ip5), Activated(Ip7)}

\* the dormant program: no task takes a step
TasksIdle ==
    UNCHANGED <<taskVars, regVars, regSigVars, stackCfg, cfgCalls, phase,
                requeried, actVars>>

\* PDP_STATUS_SIGNAL.signal(value), by the signal's publisher
PdpPublish ==
    /\ Len(pdpPubs) < MaxPublished
    /\ \E value \in PdpStatuses : PdpSignalWrite(value)
    /\ TasksIdle
    /\ UNCHANGED harnessVars

\* a task calls wait_for_activation and suspends in PDP_STATUS_SIGNAL.wait()
WaitForActivationCall ==
    /\ waiter.pc = "w_idle"
    /\ waiter' = [waiter EXCEPT !.pc = "w_wait"]
    /\ TasksIdle
    /\ UNCHANGED <<pdpSignal, pdpPubs, call>>

\* a filter that lets every status through
IsActivated_Any(st) == TRUE

\* matches!(status, PdpStatus::Activated { .. })
IsActivated(st) == st.tag = "Activated"

\* PDP_STATUS_SIGNAL.wait() returns inside wait_for_activation: return the
\* status if it is Activated, else loop
WaitForActivationTake ==
    /\ waiter.pc = "w_wait"
    /\ pdpSignal /= <<>>
    /\ pdpSignal' = SignalTaken(pdpSignal)
    /\ waiter' = [pc |-> IF IsActivated(pdpSignal[1]) THEN "w_done"
                         ELSE "w_wait",
                  received |-> Append(waiter.received, pdpSignal[1]),
                  ret |-> IF IsActivated(pdpSignal[1]) THEN <<pdpSignal[1]>>
                          ELSE <<>>]
    /\ TasksIdle
    /\ UNCHANGED <<pdpPubs, call>>

WaitNext ==
    \/ PdpPublish
    \/ WaitForActivationCall
    \/ WaitForActivationTake

WaitSpec == Init /\ [][WaitNext]_vars

\* the step is a return of PDP_STATUS_SIGNAL.wait() to wait_for_activation
WaiterTook == Len(waiter'.received) = Len(waiter.received) + 1

\* C12: wait_for_activation returns only Activated{ip}: whatever is written to
\* the PDP Signal, every Deactivated it receives is taken from the signal and
\* dropped (it keeps waiting), and the first Activated it receives is what it
\* returns, the very value that was in the signal.
C12_ReturnsOnlyActivated ==
    /\ [](/\ \A i \in 1..Len(waiter.received) :
               (waiter.received[i].tag = "Activated")
                 <=> (i = Len(waiter.received) /\ waiter.ret /= <<>>)
          /\ waiter.ret /= <<>>
               => /\ waiter.ret[1] = waiter.received[Len(waiter.received)]
                  /\ waiter.ret[1] \in {Activated(Ip5), Activated(Ip7)}
                  /\ waiter.pc = "w_done")
    /\ [][/\ waiter'.ret /= waiter.ret => WaiterTook
          /\ WaiterTook
               => /\ pdpSignal /= <<>>
                  /\ pdpSignal' = <<>>
                  /\ waiter'.received[Len(waiter'.received)] = pdpSignal[1]
                  /\ IF pdpSignal[1] = Deactivated
                     THEN waiter'.ret = <<>> /\ waiter'.pc = "w_wait"
                     ELSE waiter'.ret = <<pdpSignal[1]>>]_vars

\* two Deactivated were dropped, the second Activated written (the first was
\* overwritten) is returned
C12_Witness ==
    /\ pdpPubs = <<Deactivated, Deactivated, Activated(Ip7)>>
    /\ waiter.received = <<Deactivated, Deactivated, Activated(Ip7)>>
    /\ waiter.ret = <<Activated(Ip7)>>
    /\ pdpSignal = <<>>

\* C13: when the response to AT+CEREG? is empty or does not parse,
\* query_status leaves last_status as it was, writes nothing to the
\* Registration Signal and returns the stored last_status; last_status changes
\* only in a query_status whose parse succeeded with a value different from
\* the stored one, and then becomes that value.
C13_FailedParseKeepsState ==
    [][/\ (QueryReturned /\ parses'[Len(parses')] = NoStatus)
            => /\ last_status' = last_status
               /\ regWrites' = regWrites
               /\ regSignal' = regSignal
               /\ returns'[Len(returns')] = last_status
       /\ last_status' /= last_status
            => /\ QueryReturned
               /\ parses'[Len(parses')] \notin {NoStatus, last_status}
               /\ last_status' = parses'[Len(parses')]]_vars

\* a query that parsed RegisteredHome, then one that did not parse
C13_Witness ==
    /\ parses = <<"RegisteredHome", NoStatus>>
    /\ returns = <<"RegisteredHome", "RegisteredHome">>
    /\ last_status = "RegisteredHome"
    /\ regWrites = <<"RegisteredHome">>

\* ------------------------- registration_monitor_task, run without an end

\* query_status: AT+CEREG? goes out; the calls are counted up to MaxQueries
RegQuerySendLive ==
    /\ At("reg", "r_query")
    /\ UNCHANGED harnessVars
    /\ AtSend("reg", CmdCeregQuery)
    /\ queries' = IF queries < MaxQueries THEN queries + 1 ELSE queries
    /\ UNCHANGED <<pc, halted, last_status, parses, returns, regSigVars,
                   pdpOutVars, actVars>>

\* query_status returns; the histories are not kept
RegQueryReturnLive ==
    /\ At("reg", "r_query")
    /\ UNCHANGED harnessVars
    /\ \E resp \in CeregResponses :
         LET parsed == IF Len(resp) > 0 THEN parse_cereg_response(resp)
                       ELSE NoStatus
         IN  /\ AtReturn("reg", CmdCeregQuery)
             /\ IF parsed /= NoStatus /\ StatusChanged(parsed, last_status)
                THEN /\ last_status' = parsed
                     /\ regSignal' = <<parsed>>
                ELSE UNCHANGED <<last_status, regSignal>>
    /\ Goto("reg", "r_t30")
    /\ UNCHANGED <<halted, queries, parses, returns, regWrites, regTaken,
                   regTakeCount, status, pdpOutVars, actVars>>

\* the registration monitor task
RegLiveStep ==
    \/ RegEnableSend
    \/ RegEnableReturn
    \/ RegSettle
    \/ RegQuerySendLive
    \/ RegQueryReturnLive
    \/ RegInterval

\* the monitor task beside main's start-up, whose modem::enable may be fatal
LiveNext ==
    \/ RegLiveStep
    \/ MainEnableSend
    \/ MainEnableReturn
    \/ MainSettle

\* the executor polls the monitor task whenever it is ready: its timers
\* expire and its AT exchanges return
LiveSpec == Init /\ [][LiveNext]_vars /\ WF_vars(RegLiveStep)

\* the monitor task's order of operations: AT+CEREG=2 goes out at the task's
\* start only, before any query, and its return leaves the start for good;
\* the 100 ms timer leads to the first query; every expiry of the interval
\* timer leads to a query
RegTaskOrder ==
    [][/\ (Sent("reg") /\ at'["reg"] = CmdCeregEnable)
            => pc["reg"] = "r_enable" /\ queries = 0
       /\ (Sent("reg") /\ pc["reg"] /= "r_enable")
            => at'["reg"] = CmdCeregQuery
       /\ pc["reg"] /= "r_enable" => pc'["reg"] /= "r_enable"
       /\ (Returned("reg") /\ at["reg"] = CmdCeregEnable)
            => pc'["reg"] = "r_t100"
       /\ (pc["reg"] = "r_t100" /\ pc'["reg"] /= "r_t100")
            => pc'["reg"] = "r_query" /\ queries = 0
       /\ (pc["reg"] = "r_t30" /\ pc'["reg"] /= "r_t30")
            => pc'["reg"] = "r_query" /\ at'["reg"] = Idle]_vars

StepOf(t) ==
    /\ \/ pc'[t] /= pc[t]
       \/ at'[t] /= at[t]
       \/ (t \in ActCallers /\ Took(t))
    /\ \A u \in Tasks \ {t} : pc'[u] = pc[u] /\ at'[u] = at[u]
    /\ \A u \in ActCallers \ {t} : ~Took(u)

\* C15: each signal has one writer.  The Registration Signal is written only
\* by query_status (in the step in which the monitor task's AT+CEREG? returns);
\* the PDP Signal is written only by pdp_monitor_task's own code, after its
\* activate has returned or in its second loop.  No step of main, none inside
\* activate or get_ip_address, no configure_stack and no return of a wait
\* writes to either signal.
C15_SingleWriter ==
    [][/\ RegWritten
            => /\ QueryReturned
               /\ StepOf("reg")
               /\ at["reg"] = CmdCeregQuery
       /\ regSignal' /= regSignal
            => (RegWritten \/ (regSignal' = <<>> /\ \E t \in ActCallers : Took(t)))
       /\ (pdpPubs' /= pdpPubs \/ pdpSignal' /= pdpSignal)
            => /\ StepOf("pdp")
               /\ pc'["pdp"] = "p2_wait"
               /\ (InActivate("pdp") => ret'["pdp"] /= NotReturned)
               /\ Len(pdpPubs') = Len(pdpPubs) + 1
               /\ pdpSignal' = <<pdpPubs'[Len(pdpPubs')]>>
       /\ (\E t \in ActCallers : Took(t)) => ~RegWritten
       /\ StepOf("main")
            => /\ ~RegWritten
               /\ pdpPubs' = pdpPubs
               /\ pdpSignal' = pdpSignal
       /\ (InActivate("pdp") /\ ret'["pdp"] = NotReturned)
            => (pdpPubs' = pdpPubs /\ pdpSignal' = pdpSignal)
       /\ (InActivate("pdp") /\ StepOf("pdp")) => ~RegWritten]_vars

\* main went through activate and configure_stack, pdp_monitor_task published,
\* and both had taken a status from the Registration Signal
C15_Witness ==
    /\ Len(ConfiguredBy("main")) = 1
    /\ pc["main"] = "m_wait2"
    /\ pdpPubs /= <<>>
    /\ regTakeCount["main"] >= 1
    /\ regTakeCount["pdp"] >= 1
    /\ Len(regWrites) >= 2

\* --------------------------------------------- the parsers, called alone

\* u8::MAX, the largest argument of from_u8
MaxCode == 255

\* the comma-separated fields after "+CEREG:" in a response
MaxFields == 3

\* the dot-separated parts inside the quotes of a "+CGPADDR:" response
MaxOctets == 5

DigitText(d) ==
    CASE d = 0 -> "0" [] d = 1 -> "1" [] d = 2 -> "2" [] d = 3 -> "3"
      [] d = 4 -> "4" [] d = 5 -> "5" [] d = 6 -> "6" [] d = 7 -> "7"
      [] d = 8 -> "8" [] d = 9 -> "9"

\* the decimal digits of a number, as the modem writes it
RECURSIVE Decimal(_)
Decimal(n) ==
    IF n < 10 THEN <<DigitText(n)>>
    ELSE Decimal(n \div 10) \o <<DigitText(n % 10)>>

RECURSIVE Join(_, _)
Join(items, sep) ==
    IF Len(items) = 0 THEN <<>>
    ELSE IF Len(items) = 1 THEN items[1]
    ELSE items[1] \o <<sep>> \o Join(Tail(items), sep)

\* a quoted tracking-area code, as AT+CEREG=2 adds to its reports
TacField == <<Quote, "0", "0", "2", "F", Quote>>

\* what a field of a "+CEREG:" response may hold
CeregFields ==
    {Decimal(0), Decimal(1), Decimal(2), Decimal(5), Decimal(256),
     <<"+", "5">>, <<>>, TacField}

\* what a part of the quoted address may hold
OctetTexts ==
    {Decimal(10), Decimal(255), Decimal(256), <<"+", "7">>, <<"x">>}

NoMarkerCereg == <<"+", "C", "R", "E", "G", ":", " ">>

NoMarkerCgpaddr == <<"+", "C", "G", "P", "A", "D", "R", ":", " ", "0", ",">>

FinalOk == <<"\r", "\n", "O", "K", "\r", "\n">>

CeregForms == {"spaced", "tight", "no marker"}

CgpaddrForms ==
    {"quoted", "no marker", "no quotes", "no closing quote", "second quoted"}

\* the bytes of the response c stands for
ResponseText(c) ==
    CASE c.form = "spaced" ->
           c.lead \o CeregMarker \o <<" ">> \o Join(c.items, ",") \o c.tail
      [] c.form = "tight" ->
           c.lead \o CeregMarker \o Join(c.items, ",") \o c.tail
      [] c.form = "no marker" /\ c.given = "cereg" ->
           c.lead \o NoMarkerCereg \o Join(c.items, ",") \o c.tail
      [] c.form = "quoted" ->
           CgpaddrMarker \o <<" ", "0", ",", Quote>> \o Join(c.items, ".")
             \o <<Quote>> \o c.tail
      [] c.form = "no marker" /\ c.given = "cgpaddr" ->
           NoMarkerCgpaddr \o <<Quote>> \o Join(c.items, ".") \o <<Quote>>
             \o c.tail
      [] c.form = "no quotes" ->
           CgpaddrMarker \o <<" ", "0", ",">> \o Join(c.items, ".") \o c.tail
      [] c.form = "no closing quote" ->
           CgpaddrMarker \o <<" ", "0", ",", Quote>> \o Join(c.items, ".")
             \o c.tail
      [] c.form = "second quoted" ->
           CgpaddrMarker \o <<" ", "0", ",", Quote>> \o Join(c.items, ".")
             \o <<Quote, ",", Quote, "x", Quote>> \o c.tail
      [] c.form = "plain" -> c.lead \o Join(c.items, " ") \o c.tail
      [] OTHER -> <<>>

\* what the modem may answer to a command that reports no value: a result
\* line, or something like one, between line ends or stray bytes
PlainBodies ==
    {<<>>, OkToken, ErrorToken, <<"O">>, <<"K">>, <<"K", "O">>, <<"o", "k">>,
     <<"O", " ", "K">>, <<"O", "K", "A", "Y">>, <<"N", "O">>}

PlainWraps == {<<>>, <<"\r", "\n">>, <<BadByte>>}

\* what surrounds the "+CEREG:" line: <<lead, tail>>
CeregWraps == {<< <<>>, <<>> >>, << <<>>, FinalOk >>, << <<BadByte>>, <<>> >>}

\* the quoted form with 1..MaxOctets parts, the other forms with four
OctetLists(f) ==
    IF f = "quoted" THEN UNION {[1..n -> OctetTexts] : n \in 1..MaxOctets}
    ELSE [1..4 -> OctetTexts]

\* the arguments the parsers are called with: the status codes, the
\* "+CEREG:" responses, the "+CGPADDR:" responses
Args(given) ==
    CASE given = "u8" ->
           {[NoCall EXCEPT !.given = given, !.code = n] : n \in 0..MaxCode}
      [] given = "cereg" ->
           {[NoCall EXCEPT !.given = given, !.form = f, !.lead = w[1],
                           !.items = i, !.tail = w[2]] :
              f \in CeregForms,
              w \in CeregWraps,
              i \in UNION {[1..n -> CeregFields] : n \in 1..MaxFields}}
      [] given = "cgpaddr" ->
           UNION {{[NoCall EXCEPT !.given = given, !.form = f, !.items = i] :
                     i \in OctetLists(f)} : f \in CgpaddrForms}
      [] given = "cgact" ->
           {[NoCall EXCEPT !.given = given, !.form = "plain", !.lead = l,
                           !.items = <<b>>, !.tail = t] :
              l \in PlainWraps, b \in PlainBodies, t \in PlainWraps}

ParseInit ==
    /\ TasksInit
    /\ waiter = NoWaiter
    /\ \E given \in {"u8", "cereg", "cgpaddr"} : call \in Args(given)

\* the parsers touch no state
Pure == UNCHANGED <<taskVars, regVars, regSigVars, pdpOutVars, actVars, waiter>>

CallFromU8 ==
    /\ call.fn = "none"
    /\ call.given = "u8"
    /\ call' = [call EXCEPT !.fn = "from_u8", !.status = from_u8(call.code)]
    /\ Pure

CallIsRegistered ==
    /\ call.fn = "from_u8"
    /\ call' = [call EXCEPT !.fn = "is_registered",
                            !.registered = is_registered(call.status)]
    /\ Pure

CallParseCereg ==
    /\ call.fn = "none"
    /\ call.given = "cereg"
    /\ call' = [call EXCEPT
                  !.fn = "parse_cereg_response",
                  !.status = parse_cereg_response(ResponseText(call))]
    /\ Pure

CallParseCgpaddr ==
    /\ call.fn = "none"
    /\ call.given = "cgpaddr"
    /\ call' = [call EXCEPT
                  !.fn = "parse_cgpaddr_response",
                  !.ip = parse_cgpaddr_response(ResponseText(call))]
    /\ Pure

ParseNext ==
    \/ CallFromU8
    \/ CallIsRegistered
    \/ CallParseCereg
    \/ CallParseCgpaddr

ParseSpec == ParseInit /\ [][ParseNext]_vars

\* the 3GPP CEREG <stat> codes the spec names
ExpectedStatus(n) ==
    IF n = 0 THEN "NotRegistered"
    ELSE IF n = 1 THEN "RegisteredHome"
    ELSE IF n = 2 THEN "Searching"
    ELSE IF n = 3 THEN "Denied"
    ELSE IF n = 5 THEN "RegisteredRoaming"
    ELSE "Unknown"

\* C16: for every 8-bit code, from_u8 gives NotRegistered for 0,
\* RegisteredHome for 1, Searching for 2, Denied for 3, RegisteredRoaming for
\* 5 and Unknown for every other code, 4 included; is_registered is true of
\* RegisteredHome and RegisteredRoaming and of no other status.
C16_CodeTable ==
    /\ call.fn \in {"from_u8", "is_registered"}
         => /\ call.status = ExpectedStatus(call.code)
            /\ call.code \in {4} \cup 6..MaxCode => call.status = "Unknown"
    /\ call.fn = "is_registered"
         => (call.registered
               <=> call.status \in {"RegisteredHome", "RegisteredRoaming"})

\* from_u8(5) gave RegisteredRoaming, which is_registered accepts
C16_Witness ==
    /\ call.fn = "is_registered"
    /\ call.code = 5
    /\ call.status = "RegisteredRoaming"
    /\ call.registered

\* parse_cereg_response was called on a well-formed "+CEREG:" line
ParsedCeregLine ==
    /\ call.fn = "parse_cereg_response"
    /\ call.form \in {"spaced", "tight"}
    /\ call.lead = <<>>

\* C17: on a query reply "+CEREG: <n>,<stat>[,...]" parse_cereg_response
\* returns the status of the code in the second field, whatever the first
\* field holds and whatever fields or final "OK" line follow: "+CEREG: 2,1"
\* gives RegisteredHome, "+CEREG: 2,5" gives RegisteredRoaming.
C17_QueryReplySecondField ==
    (ParsedCeregLine /\ Len(call.items) >= 2)
      => \A n \in 0..MaxCode :
           call.items[2] = Decimal(n) => call.status = ExpectedStatus(n)

\* "+CEREG: 2,5,"002F"" and the final OK gave RegisteredRoaming
C17_Witness ==
    /\ ParsedCeregLine
    /\ call.form = "spaced"
    /\ call.items = <<Decimal(2), Decimal(5), TacField>>
    /\ call.tail = FinalOk
    /\ call.status = "RegisteredRoaming"

\* C18: on a notification "+CEREG: <stat>[,...]" parse_cereg_response returns
\* the status of the code in the first field, both when nothing follows it
\* ("+CEREG: 0" gives NotRegistered) and when quoted location fields (a
\* tracking-area code, a cell id) follow it.
C18_UrcFirstField ==
    (ParsedCeregLine /\ \A i \in 2..Len(call.items) : call.items[i] = TacField)
      => \A n \in 0..MaxCode :
           call.items[1] = Decimal(n) => call.status = ExpectedStatus(n)

\* the field the status is read from: the second if there is one, else the
\* first
StatusField(c) == IF Len(c.items) >= 2 THEN c.items[2] ELSE c.items[1]

\* the text is an unsigned 8-bit integer as str::parse reads one: decimal
\* digits of a value up to 255, with or without a leading '+'
IsU8Text(f) ==
    \E n \in 0..MaxCode : f = Decimal(n) \/ f = <<"+">> \o Decimal(n)

IsOctet(f) == \E n \in 0..MaxCode : f = Decimal(n)

OctetValue(f) == CHOOSE n \in 0..MaxCode : f = Decimal(n)

\* the response holds the marker and a first quoted substring of exactly four
\* dot-separated decimal octets
WellFormedAddress(c) ==
    /\ c.form \in {"quoted", "second quoted"}
    /\ Len(c.items) = 4
    /\ \A i \in 1..4 : IsOctet(c.items[i])

\* C20: parse_cgpaddr_response returns an address exactly when the text holds
\* "+CGPADDR:" followed by a first quoted substring of exactly four
\* dot-separated decimal octets in 0..255, and then returns those octets in
\* order; a missing marker, a missing opening or closing quote, a non-numeric
\* octet, fewer or more than four octets or an octet above 255 give None.
C20_AddressExactly ==
    call.fn = "parse_cgpaddr_response"
      => /\ call.ip /= NoIp <=> WellFormedAddress(call)
         /\ WellFormedAddress(call)
              => call.ip = <<OctetValue(call.items[1]),
                             OctetValue(call.items[2]),
                             OctetValue(call.items[3]),
                             OctetValue(call.items[4])>>

\* ----------------------------------------------------- deactivate (pdp.rs)

CmdCgactOff == "AT+CGACT=0,0"

\* Ok(())
OkUnit == <<"Ok", "()">>

DeactInit ==
    /\ TasksInit
    /\ waiter = NoWaiter
    /\ call \in Args("cgact")

\* deactivate: AT+CGACT=0,0 goes out, the caller suspends
DeactivateSend ==
    /\ call.fn = "none"
    /\ call.given = "cgact"
    /\ call' = [call EXCEPT !.fn = "deactivate: at_command",
                            !.sent = Append(@, CmdCgactOff)]
    /\ Pure

\* deactivate: the exchange returns resp_buf[..len], the function returns
DeactivateReturn ==
    /\ call.fn = "deactivate: at_command"
    /\ call' = [call EXCEPT
                  !.fn = "deactivate",
                  !.result = IF Acknowledged(ResponseText(call)) THEN OkUnit
                             ELSE ErrPdpActivation]
    /\ Pure

DeactNext ==
    \/ DeactivateSend
    \/ DeactivateReturn

DeactSpec == DeactInit /\ [][DeactNext]_vars

\* the response is non-empty text holding the token OK
HoldsOk(resp) ==
    /\ resp /= <<>>
    /\ \A i \in 1..Len(resp) : resp[i] /= BadByte
    /\ \E i \in 1..(Len(resp) - 1) : resp[i] = "O" /\ resp[i + 1] = "K"

\* C21: deactivate sends exactly one command, AT+CGACT=0,0, and returns
\* Ok(()) if and only if the response is non-empty text containing "OK"; an
\* empty response, a response that is not text and a response without "OK"
\* give Err(PdpActivation).
C21_DeactivateResult ==
    /\ call.fn = "deactivate: at_command"
         => call.sent = <<CmdCgactOff>> /\ call.result = <<"running">>
    /\ call.fn = "deactivate"
         => /\ call.sent = <<CmdCgactOff>>
            /\ call.result = IF HoldsOk(ResponseText(call)) THEN OkUnit
                             ELSE ErrPdpActivation

\* "OK" between a line end and a stray byte is not text: Err
C21_Witness ==
    /\ call.fn = "deactivate"
    /\ call.lead = <<"\r", "\n">>
    /\ call.items = <<OkToken>>
    /\ call.tail = <<BadByte>>
    /\ call.result = ErrPdpActivation

\* ------------------------------------------ the first loop of the monitor

\* the PDP monitor has done nothing that can be seen from outside
PdpSilent ==
    /\ pdpPubs = <<>>
    /\ pdpSignal = <<>>
    /\ at["pdp"] = Idle
    /\ log["pdp"] = <<>>
    /\ activations["pdp"] = 0
    /\ ConfiguredBy("pdp") = <<>>

\* C22: in the first loop of pdp_monitor_task every status that is not a
\* registration is ignored: as long as the monitor waits there it has
\* published nothing, sent no AT command and made no configure_stack call,
\* and taking such a status leaves it waiting there with all of that
\* unchanged.
C22_FirstLoopIgnores ==
    [][/\ pc["pdp"] = "p1_wait" => PdpSilent
       /\ pc'["pdp"] = "p1_wait" => PdpSilent'
       /\ (pc["pdp"] = "p1_wait" /\ Took("pdp")
             /\ ~is_registered(status'["pdp"]))
            => /\ pc'["pdp"] = "p1_wait"
               /\ UNCHANGED <<at, pdpOutVars, actVars>>]_vars

\* two statuses that are no registration were taken and ignored
C22_Witness ==
    /\ pc["pdp"] = "p1_wait"
    /\ regTakeCount["pdp"] = 2
    /\ ~is_registered(status["pdp"])
    /\ PdpSilent

\* ------------------------------------------------- the tasks, scheduled

\* the executor polls every task that is ready: a task that can take a step
\* takes one
FairSpec ==
    /\ Spec
    /\ WF_vars(RegStep)
    /\ WF_vars(PdpStep \/ ActStep("pdp"))
    /\ WF_vars(MainStep \/ ActStep("main"))

\* the commands of a full activate call, in order
ActivateCommands == <<CmdCgpaddr, CmdCgdcont, CmdCgact, CmdCgpaddr>>

IsPrefix(s, full) == Len(s) <= Len(full) /\ s = SubSeq(full, 1, Len(s))

\* C23: every call of activate terminates while its exchanges and timers
\* return (a halt of the program ends them); it sends at most four commands,
\* in the order address query, define context, activate context, address
\* query, so the context is never activated without having been defined in
\* the same call; Err(PdpActivation) is returned only after all four, when
\* the last address query gave no address.
C23_ActivateTerminates ==
    /\ [](\A t \in ActCallers :
            /\ IsPrefix(SentIn(t), ActivateCommands)
            /\ ret[t] /= NotReturned => ~InActivate(t)
            /\ ret[t] = ErrPdpActivation
                 => /\ SentIn(t) = ActivateCommands
                    /\ log[t][Len(log[t])] = RecvEvent(CmdCgpaddr, NoIp))
    /\ \A t \in ActCallers : InActivate(t) ~> (~InActivate(t) \/ halted)

\* the PDP monitor's call returned the error after the four commands
C23_Witness ==
    /\ ret["pdp"] = ErrPdpActivation
    /\ SentIn("pdp") = ActivateCommands
    /\ ~InActivate("pdp")
    /\ ~halted

\* ------------------------------- the tasks with a monitor that goes on

\* query_status: AT+CEREG? goes out, also after the queries that are counted
RegQuerySendLoop ==
    /\ At("reg", "r_query")
    /\ UNCHANGED harnessVars
    /\ AtSend("reg", CmdCeregQuery)
    /\ queries' = IF queries <= MaxQueries THEN queries + 1 ELSE queries
    /\ UNCHANGED <<pc, halted, last_status, parses, returns, regSigVars,
                   pdpOutVars, actVars>>

\* query_status returns: as RegQueryReturn for the queries that are counted;
\* from then on the modem answers without a change of status (the stored
\* status again, or nothing that parses), so that query_status stores and
\* signals nothing; these returns are not added to the histories
RegQueryReturnLoop ==
    \/ /\ queries <= MaxQueries
       /\ RegQueryReturn
    \/ /\ queries > MaxQueries
       /\ At("reg", "r_query")
       /\ UNCHANGED harnessVars
       /\ \E resp \in CeregResponses :
            LET parsed == IF Len(resp) > 0 THEN parse_cereg_response(resp)
                          ELSE NoStatus
            IN  /\ ~(parsed /= NoStatus /\ StatusChanged(parsed, last_status))
                /\ AtReturn("reg", CmdCeregQuery)
       /\ Goto("reg", "r_t30")
       /\ UNCHANGED <<halted, regVars, regSigVars, pdpOutVars, actVars>>

RegLoopStep ==
    \/ RegEnableSend
    \/ RegEnableReturn
    \/ RegSettle
    \/ RegQuerySendLoop
    \/ RegQueryReturnLoop
    \/ RegInterval

LoopNext ==
    \/ RegLoopStep
    \/ PdpStep
    \/ MainStep
    \/ \E t \in ActCallers : ActStep(t)

\* the three tasks, each polled whenever it is ready, with a registration
\* monitor that never stops querying
LoopSpec ==
    /\ Init
    /\ [][LoopNext]_vars
    /\ WF_vars(RegLoopStep)
    /\ WF_vars(PdpStep \/ ActStep("pdp"))
    /\ WF_vars(MainStep \/ ActStep("main"))

\* a registered status has been written to REGISTRATION_SIGNAL
RegisteredWritten ==
    \E i \in 1..Len(regWrites) : is_registered(regWrites[i])

\* C24: once the registration monitor has written a registered status to the
\* Registration Signal, the PDP monitor eventually publishes a PdpStatus on
\* the PDP Signal, under fair scheduling with every exchange returning (or
\* the program halts), also while main waits on the same signal.
C24_RegisteredLeadsToPublication ==
    RegisteredWritten ~> (pdpPubs /= <<>> \/ halted)

\* ------------------------------------------ the waiters of the signal

\* the waits on REGISTRATION_SIGNAL that have returned, all tasks together
WaitsReturned == regTakeCount["pdp"] + regTakeCount["main"]

\* C25: each value written to the Registration Signal is returned by at most
\* one wait in total.  The waits that returned, all tasks together, never
\* outnumber the writes; the slot holds a value exactly while the latest
\* write has not been returned; the wait that returns it belongs to one task
\* and leaves the slot empty, so that no other task's wait can return before
\* the next write.
C25_ConsumedOnce ==
    /\ [](/\ WaitsReturned <= Len(regWrites)
          /\ regSignal /= <<>> <=> regTaken < Len(regWrites)
          /\ regSignal /= <<>> => regSignal = <<regWrites[Len(regWrites)]>>)
    /\ [][\A t \in ActCallers :
            Took(t) => /\ regSignal /= <<>>
                       /\ status'[t] = regSignal[1]
                       /\ \A u \in ActCallers \ {t} :
                            ~Took(u) /\ status'[u] = status[u]
                       /\ WaitsReturned' = WaitsReturned + 1
                       /\ regSignal' = <<>>
                       /\ ~RegWritten]_vars

\* both waiters have taken a value, main after the PDP monitor, and every
\* write so far went to one of them
C25_Witness ==
    /\ regTakeCount["pdp"] = 1
    /\ regTakeCount["main"] = 2
    /\ Len(regWrites) = 3
    /\ regSignal = <<>>
    /\ status["pdp"] /= status["main"]

\* ------------------------------------- last_status and the signal agree

\* C26: after any sequence of query_status calls the value written last to
\* the Registration Signal, if there is one, is last_status (with no write
\* yet, last_status is still Unknown); every query_status call returns
\* last_status as it is on return; last_status and the signal change in the
\* same step, with no suspension point between the two.
C26_SignalAgreesWithLastStatus ==
    /\ [](IF regWrites = <<>> THEN last_status = "Unknown"
          ELSE last_status = regWrites[Len(regWrites)])
    /\ [][/\ QueryReturned => returns'[Len(returns')] = last_status'
          /\ last_status' /= last_status <=> RegWritten
          /\ RegWritten => regSignal' = <<last_status'>>]_vars

\* two statuses were written, then a query parsed nothing and returned the
\* stored status
C26_Witness ==
    /\ Len(regWrites) = 2
    /\ Len(returns) = 3
    /\ parses[3] = NoStatus
    /\ returns[3] = last_status
    /\ last_status = regWrites[2]

\* ------------------------------ configure_stack and the publications

\* the Activated publications so far
ActivatedPubs == SelectSeq(pdpPubs, LAMBDA p : p /= Deactivated)

\* C27: every publication of Activated{ip} comes in the same step as, and so
\* with no suspension point after, a configure_stack call of the PDP monitor
\* with the same ip, and the stack holds ip at the moment of the write; the
\* PDP monitor never calls configure_stack without publishing Activated with
\* that address in the same step.
C27_ConfigureThenPublish ==
    /\ [][/\ (pdpPubs' /= pdpPubs /\ pdpPubs'[Len(pdpPubs')] /= Deactivated)
               => LET c == cfgCalls'[Len(cfgCalls')]
                  IN  /\ cfgCalls' = Append(cfgCalls, c)
                      /\ c[1] = "pdp"
                      /\ pdpPubs' = Append(pdpPubs, Activated(c[2]))
                      /\ pdpSignal' = <<Activated(c[2])>>
                      /\ stackCfg' = c[2]
          /\ (cfgCalls' /= cfgCalls /\ cfgCalls'[Len(cfgCalls')][1] = "pdp")
               => /\ Len(cfgCalls') = Len(cfgCalls) + 1
                  /\ pdpPubs' = Append(pdpPubs,
                                       Activated(cfgCalls'[Len(cfgCalls')][2]))]_vars
    /\ [](/\ Len(ActivatedPubs) = Len(ConfiguredBy("pdp"))
          /\ \A i \in 1..Len(ActivatedPubs) :
               ActivatedPubs[i] = Activated(ConfiguredBy("pdp")[i][2]))

\* the activation and a later re-check each configured the stack and
\* published, with different addresses
C27_Witness ==
    /\ pdpPubs = <<Activated(Ip5), Activated(Ip7)>>
    /\ ConfiguredBy("pdp") = <<<<"pdp", Ip5>>, <<"pdp", Ip7>>>>
    /\ stackCfg = Ip7
    /\ pdpSignal = <<Activated(Ip7)>>

\* ------------------------------------- the stack after Deactivated

\* the step publishes Deactivated
PublishesDeactivated ==
    /\ pdpPubs' /= pdpPubs
    /\ pdpPubs'[Len(pdpPubs')] = Deactivated

\* the last publication is Deactivated and there was an Activated one before
DeactivatedAfterActivated ==
    /\ pdpPubs /= <<>>
    /\ pdpPubs[Len(pdpPubs)] = Deactivated
    /\ ActivatedPubs /= <<>>

\* the step leaves the stack alone and starts no exchange
StackFrame ==
    /\ UNCHANGED <<stackCfg, cfgCalls>>
    /\ \A t \in Tasks : ~Sent(t)
    /\ at'["pdp"] = Idle

\* C28 as stated: publishing Deactivated leaves the stack configuration
\* unchanged and sends no AT command, so that after a Deactivated
\* publication the stack still holds the address of the last Activated
\* publication, if there was one.
C28_StackKeepsLastActivated ==
    /\ [][PublishesDeactivated => StackFrame]_vars
    /\ [](DeactivatedAfterActivated
            => stackCfg = ActivatedPubs[Len(ActivatedPubs)].ip)

\* C28 as amended: publishing Deactivated leaves the stack configuration
\* unchanged and sends no AT command; after a Deactivated publication the
\* stack holds the address of the latest configure_stack call, which is that
\* of the last Activated publication unless main configured the stack since.
C28_StackKeptAsItWas ==
    /\ [][PublishesDeactivated => StackFrame]_vars
    /\ [](DeactivatedAfterActivated
            => LET c == cfgCalls[Len(cfgCalls)]
               IN  /\ stackCfg = c[2]
                   /\ c[1] = "pdp"
                        => stackCfg = ActivatedPubs[Len(ActivatedPubs)].ip
                   /\ c[1] /= "pdp" => c[1] = "main")

\* the monitor published Activated with one address, main then configured
\* the stack with another, and the monitor published Deactivated
C28_Witness ==
    /\ pdpPubs = <<Activated(Ip5), Deactivated>>
    /\ cfgCalls = <<<<"pdp", Ip5>>, <<"main", Ip7>>>>
    /\ stackCfg = Ip7

====
